---- MODULE Spec2Model ----
(***************************************************************************)
(* State-machine model of smolder-proto/src/smb.rs: the SMB header codec   *)
(* (SMBHeader::new / write / read) and the SMBClient operations over one   *)
(* TcpStream.                                                              *)
(*                                                                         *)
(* Two specifications share the module:                                    *)
(*   Spec       the client: calls of negotiate_protocol, session_setup,    *)
(*              tree_connect, create_file, close_file and echo, with the   *)
(*              server and the network as environment;                     *)
(*   SpecCodec  the header codec: a header is written to a byte buffer,    *)
(*              the buffer is optionally damaged, and read back.           *)
(***************************************************************************)
EXTENDS Integers, Sequences, FiniteSets, TLC

VARIABLES
    \* ---- SMBClient fields (smb.rs:116-123) ----
    session_key, uid, capabilities, max_buffer_size, security_mode,
    \* ---- the TcpStream (smb.rs:117) ----
    writes,        \* the byte sequences handed to stream.write_all, in order
    wire_in,       \* bytes sent by the server and not yet read by the client
    conn,          \* "open" | "eof" (server closed its side) | "reset"
    \* ---- control state of the client ----
    pc,            \* "idle" | "negotiate_read" (inside read_to_end)
    response,      \* the local Vec `response` of negotiate_protocol
    calls,         \* number of client calls started
    last,          \* the last call that returned: operation, arguments, result
    pid32,         \* std::process::id() of the client process
    \* ---- history of the connection ----
    srv,           \* the Negotiate responses the server has sent (parameters)
    answered,      \* number of requests the server has answered
    authenticated, \* some session_setup has returned Ok
    tids,          \* tids returned by a successful tree_connect
    fids,          \* fids returned by a successful create_file
    closed_fids,   \* fids on which close_file has been called
    \* ---- header codec harness ----
    hdr,           \* the header passed to SMBHeader::write
    buf,           \* the Vec<u8> written to / the reader read from
    rin,           \* the input the last SMBHeader::read was given
    rhdr,          \* the header SMBHeader::read decodes into (&mut self)
    rres,          \* result of the last codec call: "none" | "Ok" | "Err_IO"
    stage,         \* "start" | "written" | "read"
    damage         \* what was done to the written bytes before the read:
                   \* a subset of {"tampered", "truncated", "extended"}

clientVars == <<session_key, uid, capabilities, max_buffer_size, security_mode>>
streamVars == <<writes, wire_in, conn>>
ctlVars    == <<pc, response, calls, last, pid32>>
histVars   == <<srv, answered, authenticated, tids, fids, closed_fids>>
codecVars  == <<hdr, buf, rin, rhdr, rres, stage, damage>>
vars == <<clientVars, streamVars, ctlVars, histVars, codecVars>>

(***************************************************************************)
(* Bounds of the model                                                     *)
(***************************************************************************)
MaxCalls == 3          \* client calls per behaviour

(***************************************************************************)
(* Constants of smb.rs                                                     *)
(***************************************************************************)
\* "NT LM 0.12" as ASCII bytes
SMB_DIALECT == <<78, 84, 32, 76, 77, 32, 48, 46, 49, 50>>

SMB_COM_CREATE == 3
SMB_COM_CLOSE == 4
SMB_COM_ECHO == 43
SMB_COM_NEGOTIATE == 114
SMB_COM_SESSION_SETUP_ANDX == 115
SMB_COM_TREE_CONNECT_ANDX == 117

FLAGS1_PATHCASELESS == 8
FLAGS2_EXTENDED_SECURITY == 2048
FLAGS2_UNICODE == 32768

\* [0xFF, b'S', b'M', b'B']
SMB_SIGNATURE == <<255, 83, 77, 66>>

(***************************************************************************)
(* Integer and byte helpers                                                *)
(***************************************************************************)
RECURSIVE BitOr(_, _)
\* a | b on non-negative integers
BitOr(a, b) ==
    IF a = 0 THEN b
    ELSE IF b = 0 THEN a
    ELSE (IF (a % 2 = 1) \/ (b % 2 = 1) THEN 1 ELSE 0)
         + 2 * BitOr(a \div 2, b \div 2)

\* `x as u16`
AsU16(x) == x % 65536

\* byteorder: write_u16::<LittleEndian>, write_u32::<LittleEndian>
LE16(v) == <<v % 256, (v \div 256) % 256>>
LE32(v) == <<v % 256, (v \div 256) % 256, (v \div 65536) % 256,
             (v \div 16777216) % 256>>

\* big-endian encoding of the transport length prefix
BE32(v) == <<(v \div 16777216) % 256, (v \div 65536) % 256,
             (v \div 256) % 256, v % 256>>

\* byteorder: read_u8, read_u16::<LittleEndian>, read_u32::<LittleEndian>
FromLE(b) ==
    IF Len(b) = 1 THEN b[1]
    ELSE IF Len(b) = 2 THEN b[1] + 256 * b[2]
    ELSE b[1] + 256 * b[2] + 65536 * b[3] + 16777216 * b[4]

Take(s, n) == SubSeq(s, 1, n)
Drop(s, n) == SubSeq(s, n + 1, Len(s))
Min(a, b) == IF a < b THEN a ELSE b

(***************************************************************************)
(* SMBHeader                                                               *)
(***************************************************************************)
\* SMBHeader::new(command); p is std::process::id()
SMBHeaderNew(command, p) ==
    [ protocol          |-> SMB_SIGNATURE,
      command           |-> command,
      status            |-> 0,
      flags             |-> FLAGS1_PATHCASELESS,
      flags2            |-> BitOr(FLAGS2_UNICODE, FLAGS2_EXTENDED_SECURITY),
      pid_high          |-> 0,
      security_features |-> <<0, 0, 0, 0, 0, 0, 0, 0>>,
      tid               |-> 0,
      pid               |-> AsU16(p),
      uid               |-> 0,
      mid               |-> 0 ]

\* SMBHeader::write: the bytes appended to the writer
SMBHeaderWrite(h) ==
    h.protocol \o <<h.command>> \o LE32(h.status) \o <<h.flags>>
      \o LE16(h.flags2) \o LE16(h.pid_high) \o h.security_features
      \o LE16(h.tid) \o LE16(h.pid) \o LE16(h.uid) \o LE16(h.mid)

\* The reads of SMBHeader::read in order: field, width, array or integer
HeaderLayout ==
    << [name |-> "protocol",          size |-> 4, array |-> TRUE ],
       [name |-> "command",           size |-> 1, array |-> FALSE],
       [name |-> "status",            size |-> 4, array |-> FALSE],
       [name |-> "flags",             size |-> 1, array |-> FALSE],
       [name |-> "flags2",            size |-> 2, array |-> FALSE],
       [name |-> "pid_high",          size |-> 2, array |-> FALSE],
       [name |-> "security_features", size |-> 8, array |-> TRUE ],
       [name |-> "tid",               size |-> 2, array |-> FALSE],
       [name |-> "pid",               size |-> 2, array |-> FALSE],
       [name |-> "uid",               size |-> 2, array |-> FALSE],
       [name |-> "mid",               size |-> 2, array |-> FALSE] >>

\* read_exact(&mut field) that hit the end of input after Len(input) bytes:
\* the contents of the destination are unspecified; `fill` tells whether
\* this reader copied the bytes it had before failing.
ShortFill(old, input, fill) ==
    IF fill THEN [i \in 1..Len(old) |-> IF i <= Len(input) THEN input[i] ELSE old[i]]
    ELSE old

RECURSIVE ReadFields(_, _, _, _)
\* the sequence of `?`-terminated reads of SMBHeader::read from field i on
ReadFields(i, h, input, fill) ==
    IF i > Len(HeaderLayout)
    THEN [res |-> "Ok", hdr |-> h, rest |-> input]
    ELSE LET f == HeaderLayout[i] IN
         IF Len(input) < f.size
         THEN [res  |-> "Err_IO",
               hdr  |-> IF f.array
                        THEN [h EXCEPT ![f.name] = ShortFill(h[f.name], input, fill)]
                        ELSE h,
               rest |-> <<>>]
         ELSE ReadFields(i + 1,
                         [h EXCEPT ![f.name] =
                             IF f.array THEN Take(input, f.size)
                             ELSE FromLE(Take(input, f.size))],
                         Drop(input, f.size), fill)

\* SMBHeader::read(&mut self, reader): result, self afterwards, input left
SMBHeaderRead(self, input, fill) == ReadFields(1, self, input, fill)

(***************************************************************************)
(* negotiate_protocol: the request it builds                               *)
(***************************************************************************)
RECURSIVE DialectEntries(_)
\* the `for dialect in dialects` loop filling negotiate_data
DialectEntries(dialects) ==
    IF dialects = <<>> THEN <<>>
    ELSE (<<2>> \o Head(dialects) \o <<0>>) \o DialectEntries(Tail(dialects))

\* negotiate_protocol with the byte count taken from the dialect string
\* alone, leaving out the format byte and the terminator
NegotiatePacketShortCount(p) ==
    LET header == SMBHeaderNew(SMB_COM_NEGOTIATE, p)
        negotiate_data == DialectEntries(<<SMB_DIALECT>>)
    IN  SMBHeaderWrite(header) \o <<0>>
          \o LE16(AsU16(Len(SMB_DIALECT))) \o negotiate_data

\* the Vec `packet` handed to stream.write_all
NegotiatePacket(p) ==
    LET header == SMBHeaderNew(SMB_COM_NEGOTIATE, p)
        negotiate_data == DialectEntries(<<SMB_DIALECT>>)
    IN  SMBHeaderWrite(header) \o <<0>>
          \o LE16(AsU16(Len(negotiate_data))) \o negotiate_data

(***************************************************************************)
(* The server: Negotiate responses on the wire                             *)
(***************************************************************************)
\* Parameters of the Negotiate responses the modelled server may send
NegotiateResponses ==
    { [dialect_index |-> 0, security_mode |-> 3, max_buffer_size |-> 16644,
       capabilities |-> 62461],
      [dialect_index |-> 0, security_mode |-> 1, max_buffer_size |-> 4356,
       capabilities |-> 513],
      [dialect_index |-> 65535, security_mode |-> 0, max_buffer_size |-> 0,
       capabilities |-> 0] }

\* SMB message body of a Negotiate response: header, word block, byte block
NegotiateResponseBody(r, p) ==
    LET h == [SMBHeaderNew(SMB_COM_NEGOTIATE, p) EXCEPT !.flags = 136]
        words == IF r.dialect_index = 65535
                 THEN LE16(r.dialect_index)
                 ELSE LE16(r.dialect_index) \o <<r.security_mode>>
                        \o LE16(50) \o LE16(1) \o LE32(r.max_buffer_size)
                        \o LE32(65536) \o LE32(0) \o LE32(r.capabilities)
                        \o <<0, 0, 0, 0, 0, 0, 0, 0>> \o LE16(0) \o <<8>>
        bytes == IF r.dialect_index = 65535 THEN <<>>
                 ELSE <<1, 2, 3, 4, 5, 6, 7, 8>>
    IN  SMBHeaderWrite(h) \o <<Len(words) \div 2>> \o words
          \o LE16(Len(bytes)) \o bytes

\* Transport framing: 4-byte big-endian length, top byte zero
Frame(body) == BE32(Len(body)) \o body

(***************************************************************************)
(* Initial states                                                          *)
(***************************************************************************)
NoCall ==
    [op |-> "none", result |-> "none", value |-> 0, tid |-> 0, fid |-> 0,
     wrote |-> 0, read |-> <<>>, payload |-> <<>>, conn |-> "open",
     auth_before |-> FALSE,
     tid_known |-> FALSE, fid_open |-> FALSE, fid_closed |-> FALSE]

\* process ids the client may run under
ProcessIds == {1, 4660, 70000}

\* SMBClient::new after a successful connect
ClientNew ==
    /\ session_key = <<>>
    /\ uid = 0
    /\ capabilities = 0
    /\ max_buffer_size = 0
    /\ security_mode = 0
    /\ writes = <<>>
    /\ wire_in = <<>>
    /\ conn = "open"
    /\ pc = "idle"
    /\ response = <<>>
    /\ calls = 0
    /\ last = NoCall
    /\ srv = <<>>
    /\ answered = 0
    /\ authenticated = FALSE
    /\ tids = {}
    /\ fids = {}
    /\ closed_fids = {}

\* no header codec call has been made
CodecIdle ==
    /\ buf = <<>>
    /\ rin = <<>>
    /\ rres = "none"
    /\ stage = "start"
    /\ damage = {}

Init ==
    /\ ClientNew
    /\ pid32 \in ProcessIds
    /\ CodecIdle
    /\ hdr = SMBHeaderNew(0, pid32)
    /\ rhdr = SMBHeaderNew(0, pid32)

(***************************************************************************)
(* SMBClient operations                                                    *)
(***************************************************************************)
\* a call through a shared reference: it may start while another call is
\* still inside negotiate_protocol
CanCallShared == calls < MaxCalls

\* a call can start: the methods take `&mut self`, so no other call of this
\* client is in progress
CanCall == pc = "idle" /\ calls < MaxCalls

\* what a call records when it returns
Returned(op, result, value, tid, fid, wrote, rd) ==
    [op |-> op, result |-> result, value |-> value, tid |-> tid, fid |-> fid,
     wrote |-> wrote, read |-> rd, payload |-> <<>>, conn |-> conn,
     auth_before |-> authenticated,
     tid_known |-> tid \in tids,
     fid_open |-> fid \in (fids \ closed_fids),
     fid_closed |-> fid \in closed_fids]

\* negotiate_protocol up to and including a successful stream.write_all
NegotiateSend ==
    /\ CanCall
    /\ conn # "reset"
    /\ writes' = Append(writes, NegotiatePacket(pid32))
    /\ pc' = "negotiate_read"
    /\ response' = <<>>
    /\ calls' = calls + 1
    /\ UNCHANGED <<clientVars, wire_in, conn, last, pid32, histVars, codecVars>>

\* negotiate_protocol: stream.write_all fails, `?` returns SMBError::IO
NegotiateSendFail ==
    /\ CanCall
    /\ conn = "reset"
    /\ calls' = calls + 1
    /\ last' = Returned("negotiate_protocol", "Err_IO", 0, 0, 0, 0, <<>>)
    /\ UNCHANGED <<clientVars, streamVars, pc, response, pid32, histVars, codecVars>>

\* the sizes one read() inside read_to_end may return with `avail` bytes
\* buffered: the 32-byte probe read, or everything that has arrived
ReadSizes(avail) == {Min(32, avail), avail}

\* read_to_end: one read() that returns n > 0 bytes
NegotiateRead ==
    /\ pc = "negotiate_read"
    /\ conn # "reset"
    /\ wire_in # <<>>
    /\ \E n \in ReadSizes(Len(wire_in)) :
          /\ response' = response \o Take(wire_in, n)
          /\ wire_in' = Drop(wire_in, n)
    /\ UNCHANGED <<clientVars, writes, conn, pc, calls, last, pid32, histVars, codecVars>>

\* read_to_end: read() returns 0 at end of stream, negotiate_protocol
\* drops the response and returns Ok(())
NegotiateReadEof ==
    /\ pc = "negotiate_read"
    /\ conn = "eof"
    /\ wire_in = <<>>
    /\ last' = Returned("negotiate_protocol", "Ok", 0, 0, 0, 1, response)
    /\ pc' = "idle"
    /\ response' = <<>>
    /\ UNCHANGED <<clientVars, streamVars, calls, pid32, histVars, codecVars>>

\* read_to_end: nothing arrives within the 30 s read timeout set by
\* SMBClient::new; read() fails and `?` returns SMBError::IO
NegotiateReadTimeout ==
    /\ pc = "negotiate_read"
    /\ conn = "open"
    /\ wire_in = <<>>
    /\ last' = Returned("negotiate_protocol", "Err_IO", 0, 0, 0, 1, response)
    /\ pc' = "idle"
    /\ response' = <<>>
    /\ UNCHANGED <<clientVars, streamVars, calls, pid32, histVars, codecVars>>

\* read_to_end: read() fails on a reset connection
NegotiateReadReset ==
    /\ pc = "negotiate_read"
    /\ conn = "reset"
    /\ last' = Returned("negotiate_protocol", "Err_IO", 0, 0, 0, 1, response)
    /\ pc' = "idle"
    /\ response' = <<>>
    /\ UNCHANGED <<clientVars, streamVars, calls, pid32, histVars, codecVars>>

\* session_setup(username, password, domain): builds a header, returns Ok(())
SessionSetup ==
    /\ CanCall
    /\ calls' = calls + 1
    /\ last' = Returned("session_setup", "Ok", 0, 0, 0, 0, <<>>)
    /\ authenticated' = TRUE
    /\ UNCHANGED <<clientVars, streamVars, pc, response, pid32,
                   srv, answered, tids, fids, closed_fids, codecVars>>

\* tree_connect(share): builds a header, returns Ok(0)
TreeConnect ==
    /\ CanCall
    /\ calls' = calls + 1
    /\ last' = Returned("tree_connect", "Ok", 0, 0, 0, 0, <<>>)
    /\ tids' = tids \cup {0}
    /\ UNCHANGED <<clientVars, streamVars, pc, response, pid32,
                   srv, answered, authenticated, fids, closed_fids, codecVars>>

\* tid and fid arguments the callers pass
TidArgs == {0, 5}
FidArgs == {0, 7}

\* create_file(tid, filename): builds a header, returns Ok(0)
CreateFile ==
    /\ CanCall
    /\ \E tid \in TidArgs :
          last' = Returned("create_file", "Ok", 0, tid, 0, 0, <<>>)
    /\ calls' = calls + 1
    /\ fids' = fids \cup {0}
    /\ UNCHANGED <<clientVars, streamVars, pc, response, pid32,
                   srv, answered, authenticated, tids, closed_fids, codecVars>>

\* close_file(tid, fid): builds a header, returns Ok(())
CloseFile ==
    /\ CanCall
    /\ \E tid \in TidArgs, fid \in FidArgs :
          /\ last' = Returned("close_file", "Ok", 0, tid, fid, 0, <<>>)
          /\ closed_fids' = closed_fids \cup {fid}
    /\ calls' = calls + 1
    /\ UNCHANGED <<clientVars, streamVars, pc, response, pid32,
                   srv, answered, authenticated, tids, fids, codecVars>>

\* payloads passed to echo
EchoArgs == {<<>>, <<1, 2>>}

\* echo(data) that sends its header and payload before returning
EchoSends ==
    /\ CanCall
    /\ \E data \in EchoArgs :
          /\ last' = [Returned("echo", "Ok", <<>>, 0, 0, 1, <<>>) EXCEPT !.payload = data]
          /\ writes' = Append(writes, SMBHeaderWrite(SMBHeaderNew(SMB_COM_ECHO, pid32)) \o data)
    /\ calls' = calls + 1
    /\ UNCHANGED <<clientVars, wire_in, conn, pc, response, pid32, histVars, codecVars>>

\* echo(data): builds a header, returns Ok(Vec::new())
Echo ==
    /\ CanCall
    /\ \E data \in EchoArgs :
          last' = [Returned("echo", "Ok", <<>>, 0, 0, 0, <<>>) EXCEPT !.payload = data]
    /\ calls' = calls + 1
    /\ UNCHANGED <<clientVars, streamVars, pc, response, pid32, histVars, codecVars>>

(***************************************************************************)
(* The environment of the client: server and network                       *)
(***************************************************************************)
\* the server answers a Negotiate request it has received
ServerRespond ==
    /\ conn = "open"
    /\ answered < Len(writes)
    /\ \E r \in NegotiateResponses :
          /\ wire_in' = wire_in \o Frame(NegotiateResponseBody(r, pid32))
          /\ srv' = Append(srv, r)
    /\ answered' = answered + 1
    /\ UNCHANGED <<clientVars, writes, conn, ctlVars, authenticated, tids,
                   fids, closed_fids, codecVars>>

\* the server closes the connection
ServerClose ==
    /\ conn = "open"
    /\ conn' = "eof"
    /\ UNCHANGED <<clientVars, writes, wire_in, ctlVars, histVars, codecVars>>

\* the connection is reset; unread data is lost
ConnReset ==
    /\ conn \in {"open", "eof"}
    /\ conn' = "reset"
    /\ wire_in' = <<>>
    /\ UNCHANGED <<clientVars, writes, ctlVars, histVars, codecVars>>

Next ==
    \/ NegotiateSend
    \/ NegotiateSendFail
    \/ NegotiateRead
    \/ NegotiateReadEof
    \/ NegotiateReadTimeout
    \/ NegotiateReadReset
    \/ SessionSetup
    \/ TreeConnect
    \/ CreateFile
    \/ CloseFile
    \/ Echo
    \/ ServerRespond
    \/ ServerClose
    \/ ConnReset

Spec == Init /\ [][Next]_vars

(***************************************************************************)
(* The header codec on its own: write a header, damage the bytes, read     *)
(***************************************************************************)
\* Header values the codec is exercised on (valid signature); u32 samples
\* stay below 2^31, the largest integer the model checker represents
Headers(p) ==
    [ protocol          : {SMB_SIGNATURE},
      command           : {SMB_COM_NEGOTIATE, SMB_COM_CLOSE},
      status            : {0, 305419896, 2147483647},
      flags             : {FLAGS1_PATHCASELESS, 152},
      flags2            : {BitOr(FLAGS2_UNICODE, FLAGS2_EXTENDED_SECURITY), 1},
      pid_high          : {0, 258},
      security_features : {<<0, 0, 0, 0, 0, 0, 0, 0>>, <<1, 2, 3, 4, 5, 6, 7, 8>>},
      tid               : {0, 2048},
      pid               : {AsU16(p)},
      uid               : {0, 100},
      mid               : {0, 65535} ]

InitCodec ==
    /\ ClientNew
    /\ pid32 \in ProcessIds
    /\ CodecIdle
    /\ hdr \in Headers(pid32)
    /\ rhdr = SMBHeaderNew(0, pid32)

\* header.write(&mut buf) on a Vec<u8>
HeaderWrite ==
    /\ stage = "start"
    /\ buf' = buf \o SMBHeaderWrite(hdr)
    /\ rres' = "Ok"
    /\ stage' = "written"
    /\ UNCHANGED <<clientVars, streamVars, ctlVars, histVars, hdr, rin, rhdr, damage>>

\* positions and values used to damage the buffer
TamperAt == {1, 2, 4, 5, 10, 30}
TamperWith == {0, 83}

\* one byte of the buffer is replaced before it is decoded
Tamper ==
    /\ stage = "written"
    /\ damage = {}
    /\ \E i \in TamperAt, b \in TamperWith :
          /\ buf[i] # b
          /\ buf' = [buf EXCEPT ![i] = b]
    /\ damage' = {"tampered"}
    /\ UNCHANGED <<clientVars, streamVars, ctlVars, histVars, hdr, rin, rhdr, rres, stage>>

\* lengths the buffer is cut to
TruncateTo == {0, 2, 4, 5, 9, 20, 29}

\* the buffer is cut short before it is decoded
Truncate ==
    /\ stage = "written"
    /\ damage \subseteq {"tampered"}
    /\ \E n \in TruncateTo : buf' = Take(buf, n)
    /\ damage' = damage \cup {"truncated"}
    /\ UNCHANGED <<clientVars, streamVars, ctlVars, histVars, hdr, rin, rhdr, rres, stage>>

\* bytes that may follow the header in the reader's input
Trailers == {<<0, 0>>, <<0, 12, 0>>}

\* more bytes follow the header in the reader's input
Extend ==
    /\ stage = "written"
    /\ damage \subseteq {"tampered"}
    /\ \E t \in Trailers : buf' = buf \o t
    /\ damage' = damage \cup {"extended"}
    /\ UNCHANGED <<clientVars, streamVars, ctlVars, histVars, hdr, rin, rhdr, rres, stage>>

\* rhdr.read(&mut reader) with the buffer as the reader's input
HeaderRead ==
    /\ stage = "written"
    /\ \E fill \in BOOLEAN :
          LET r == SMBHeaderRead(rhdr, buf, fill) IN
          /\ rhdr' = r.hdr
          /\ buf' = r.rest
          /\ rres' = r.res
    /\ rin' = buf
    /\ stage' = "read"
    /\ UNCHANGED <<clientVars, streamVars, ctlVars, histVars, hdr, damage>>

NextCodec ==
    \/ HeaderWrite
    \/ Tamper
    \/ Truncate
    \/ Extend
    \/ HeaderRead

SpecCodec == InitCodec /\ [][NextCodec]_vars

(***************************************************************************)
(* Properties                                                              *)
(***************************************************************************)
\* the framed Negotiate response with parameters r, as the server sends it
SentResponse(r) == Frame(NegotiateResponseBody(r, pid32))

\* C1: a tree_connect called while no session_setup has succeeded returns
\* an out-of-sequence error and writes nothing to the transport.
C1_TreeConnectGuard ==
    (last.op = "tree_connect" /\ ~last.auth_before)
        => (last.result = "Err_OutOfSequence" /\ last.wrote = 0)

\* C2: a create_file on a tid that no successful tree_connect returned
\* returns an out-of-sequence error and writes nothing to the transport.
C2_CreateFileGuard ==
    (last.op = "create_file" /\ ~last.tid_known)
        => (last.result = "Err_OutOfSequence" /\ last.wrote = 0)

\* C3: a close_file on an fid that is not open (already closed, or never
\* returned by create_file) returns an out-of-sequence error and writes
\* nothing to the transport.
C3_CloseInvalidatesFid ==
    (last.op = "close_file" /\ ~last.fid_open)
        => (last.result = "Err_OutOfSequence" /\ last.wrote = 0)

\* C4: SMBHeader::write produces 32 bytes, and SMBHeader::read of those
\* bytes succeeds and yields a header equal to the written one in every
\* field.
C4_HeaderRoundTrip ==
    (stage = "read" /\ damage = {})
        => (Len(rin) = 32 /\ rres = "Ok" /\ rhdr = hdr)

\* C5: SMBHeader::read of a 32-byte buffer whose first four bytes are not
\* 0xFF 'S' 'M' 'B' yields a protocol error, never Ok.
C5_SignatureRejected ==
    (stage = "read" /\ Len(rin) = 32 /\ Take(rin, 4) # SMB_SIGNATURE)
        => rres = "Err_Protocol"

\* C6: when the server has answered the Negotiate request with one
\* well-formed response selecting dialect index 0 and keeps the connection
\* open, negotiate_protocol returns Ok after reading that one response.
C6_NegotiateCompletes ==
    (/\ last.op = "negotiate_protocol"
     /\ last.conn = "open"
     /\ \E r \in NegotiateResponses :
           r.dialect_index = 0 /\ last.read = SentResponse(r))
        => last.result = "Ok"

\* C7: every message written to the transport starts with a 4-byte
\* big-endian length prefix: top byte zero, low three bytes the length of
\* the SMB message that follows.
C7_SendFraming ==
    \A i \in 1..Len(writes) :
        LET w == writes[i] IN
        /\ Len(w) >= 4
        /\ w[1] = 0
        /\ w[2] * 65536 + w[3] * 256 + w[4] = Len(w) - 4

\* C8: whenever negotiate_protocol returns Ok after reading the server's
\* Negotiate response, the client's capabilities, max_buffer_size and
\* security_mode equal the values carried in that response.
C8_NegotiateRecords ==
    \A r \in NegotiateResponses :
        (/\ last.op = "negotiate_protocol"
         /\ last.result = "Ok"
         /\ last.read = SentResponse(r))
            => /\ capabilities = r.capabilities
               /\ max_buffer_size = r.max_buffer_size
               /\ security_mode = r.security_mode

\* C9: when the server's Negotiate response selects no dialect (index out
\* of range for the one offered dialect), negotiate_protocol returns a
\* protocol error.
C9_DialectRejected ==
    \A r \in NegotiateResponses :
        (/\ last.op = "negotiate_protocol"
         /\ r.dialect_index # 0
         /\ last.read = SentResponse(r))
            => last.result = "Err_Protocol"

\* C10: session_setup returns Ok only after it has written a Session Setup
\* AndX request to the transport and read a response.
C10_AuthFollowsServer ==
    (last.op = "session_setup" /\ last.result = "Ok")
        => /\ last.wrote > 0
           /\ last.read # <<>>
           /\ \E i \in 1..Len(writes) :
                 SMB_COM_SESSION_SETUP_ANDX \in {writes[i][5], writes[i][9]}

\* Parameters of the Session Setup AndX responses a server may send
SessionSetupResponses ==
    { [uid |-> 100, session_key |-> <<17, 34, 51, 68>>],
      [uid |-> 2049, session_key |-> <<9, 8, 7, 6>>] }

\* SMB message body of a successful Session Setup AndX response
SessionSetupResponseBody(r, p) ==
    LET h == [SMBHeaderNew(SMB_COM_SESSION_SETUP_ANDX, p)
                EXCEPT !.flags = 136, !.uid = r.uid]
        words == <<255, 0>> \o LE16(0) \o LE16(0)
    IN  SMBHeaderWrite(h) \o <<Len(words) \div 2>> \o words \o LE16(0)

\* C11: whenever session_setup has returned Ok, the call read a Session
\* Setup response of the server, the client's uid is the uid of that
\* response and its session_key is the key of that exchange.
C11_SessionBookkeeping ==
    (last.op = "session_setup" /\ last.result = "Ok")
        => \E r \in SessionSetupResponses :
              /\ last.read = Frame(SessionSetupResponseBody(r, pid32))
              /\ uid = r.uid
              /\ session_key = r.session_key

\* C12: whenever echo(payload) returns Ok(bytes), bytes has the length of
\* payload.
C12_EchoReturnsPayload ==
    (last.op = "echo" /\ last.result = "Ok")
        => Len(last.value) = Len(last.payload)

\* the mid field of the header at the start of a written message
MidOf(w) == SMBHeaderRead(SMBHeaderNew(0, 0), w, FALSE).hdr.mid

\* C13: no two requests written to the transport carry the same mid.
C13_FreshMid ==
    \A i, j \in 1..Len(writes) : i # j => MidOf(writes[i]) # MidOf(writes[j])

\* C14: a tid returned by a successful tree_connect and an fid returned by
\* a successful create_file are nonzero.
C14_NonzeroIds ==
    (last.op \in {"tree_connect", "create_file"} /\ last.result = "Ok")
        => last.value # 0

\* byte k (0 = lowest) of the integer v
ByteOf(v, k) ==
    (v \div (CASE k = 0 -> 1 [] k = 1 -> 256 [] k = 2 -> 65536 [] k = 3 -> 16777216)) % 256

\* C15: SMBHeader::write emits exactly 32 bytes: signature[4], command[1],
\* status[4], flags[1], flags2[2], pid_high[2], security_features[8],
\* tid[2], pid[2], uid[2], mid[2], every integer low byte first.
C15_HeaderLayout ==
    (stage = "written" /\ damage = {})
        => /\ Len(buf) = 32
           /\ SubSeq(buf, 1, 4) = hdr.protocol
           /\ buf[5] = hdr.command
           /\ \A k \in 0..3 : buf[6 + k] = ByteOf(hdr.status, k)
           /\ buf[10] = hdr.flags
           /\ \A k \in 0..1 : buf[11 + k] = ByteOf(hdr.flags2, k)
           /\ \A k \in 0..1 : buf[13 + k] = ByteOf(hdr.pid_high, k)
           /\ SubSeq(buf, 15, 22) = hdr.security_features
           /\ \A k \in 0..1 : buf[23 + k] = ByteOf(hdr.tid, k)
           /\ \A k \in 0..1 : buf[25 + k] = ByteOf(hdr.pid, k)
           /\ \A k \in 0..1 : buf[27 + k] = ByteOf(hdr.uid, k)
           /\ \A k \in 0..1 : buf[29 + k] = ByteOf(hdr.mid, k)

AfterHeader(w) == SMBHeaderRead(SMBHeaderNew(0, 0), w, FALSE).rest

\* the header at the start of a written message
HeaderOf(w) == SMBHeaderRead(SMBHeaderNew(0, 0), w, FALSE).hdr

\* C17: every message built by negotiate_protocol has command 0x72, word
\* count 0, and a byte block whose little-endian byte count equals the
\* number of data bytes that follow, which are 0x02, "NT LM 0.12", 0x00.
C17_NegotiateBody ==
    \A i \in 1..Len(writes) :
        LET b == AfterHeader(writes[i]) IN
        /\ HeaderOf(writes[i]).command = 114
        /\ Len(b) >= 3
        /\ b[1] = 0
        /\ b[2] + 256 * b[3] = Len(b) - 3
        /\ Drop(b, 3) = <<2, 78, 84, 32, 76, 77, 32, 48, 46, 49, 50, 0>>

\* negotiate_protocol has written its request
C17_Witness == Len(writes) >= 1 /\ Len(writes[1]) > 12

\* the UTF-16LE encoding of an ASCII string
Utf16le(str) ==
    [i \in 1..(2 * Len(str)) |-> IF i % 2 = 1 THEN str[(i + 1) \div 2] ELSE 0]

\* C18: in every message sent, the dialect string is null-terminated
\* UTF-16LE when flags2 has the Unicode bit (0x8000), and null-terminated
\* ASCII when it has not.
C18_StringEncoding ==
    \A i \in 1..Len(writes) :
        LET data == Drop(AfterHeader(writes[i]), 3)
            unicode == (HeaderOf(writes[i]).flags2 \div FLAGS2_UNICODE) % 2 = 1
        IN  IF unicode
            THEN data = <<2>> \o Utf16le(SMB_DIALECT) \o <<0, 0>>
            ELSE data = <<2>> \o SMB_DIALECT \o <<0>>

\* C19: the client's session_key, uid, capabilities, max_buffer_size and
\* security_mode always hold their construction values, and a call other
\* than negotiate_protocol neither writes to nor reads from the transport.
C19_Frame ==
    /\ [](/\ session_key = <<>>
          /\ uid = 0
          /\ capabilities = 0
          /\ max_buffer_size = 0
          /\ security_mode = 0)
    /\ [][(calls' = calls + 1 /\ pc' = "idle" /\ last'.op # "negotiate_protocol")
            => (writes' = writes /\ wire_in' = wire_in)]_vars

\* echo has returned after a negotiate_protocol and a session_setup
C19_Witness ==
    /\ last.op = "echo"
    /\ authenticated
    /\ Len(writes) >= 1
    /\ uid = 0
    /\ session_key = <<>>

\* C20: SMBHeader::read returns Ok exactly when its input holds at least 32
\* bytes and then consumes exactly 32; on a shorter input it returns an I/O
\* error with the fields decoded before the end already overwritten.
C20_DecodeLength ==
    stage = "read"
        => /\ (rres = "Ok") <=> (Len(rin) >= 32)
           /\ (rres = "Ok") => (Len(rin) - Len(buf) = 32)
           /\ (Len(rin) < 32) =>
                 /\ rres = "Err_IO"
                 /\ (Len(rin) >= 5) => (rhdr.command = rin[5])
                 /\ (Len(rin) >= 9) => (rhdr.status = FromLE(SubSeq(rin, 6, 9)))

====
